---- MODULE Spec2Model ----
(***************************************************************************)
(* PageRank (src/pagerank.py): the transition model, the sampling          *)
(* estimator and the iterative estimator.                                  *)
(*                                                                         *)
(* Arithmetic is exact.  A probability of the transition model is a        *)
(* reduced fraction <<numerator, denominator>>.  A rank of the iterative   *)
(* estimator is numerator / (|corpus| * unit), all ranks of one mapping    *)
(* over the same unit; numerators and units outgrow machine integers       *)
(* after a few passes, so they are kept as sequences of base-10^4 digits,  *)
(* least significant first, without leading zeros (zero is <<>>).          *)
(***************************************************************************)
EXTENDS Integers, Sequences, FiniteSets, TLC

\* ---------------------------------------------------------------- bounds
NumPages == 3
MaxLinks == 3
MaxSamples == 3
MaxPasses == 60

\* ------------------------------------------------------------- constants
TolDen == 1000

Pages == 1..NumPages

\* DAMPING = 0.85 is 17/20; the others are the ends and the middle of [0, 1].
DAMPING == <<17, 20>>
Dampings == {<<0, 1>>, <<1, 2>>, DAMPING, <<1, 1>>}

SampleCounts == (0 - MaxSamples)..MaxSamples

\* ------------------------------------------------------------ small sums
RECURSIVE SumTo(_, _)
SumTo(f, i) == IF i = 0 THEN 0 ELSE f[i] + SumTo(f, i - 1)

Sum(f) == SumTo(f, NumPages)

RECURSIVE GCD(_, _)
GCD(a, b) == IF b = 0 THEN a ELSE GCD(b, a % b)

LCM(a, b) == (a * b) \div GCD(a, b)

Abs(x) == IF x < 0 THEN 0 - x ELSE x

\* --------------------------------------------------------------- corpora
\* crawl: every link target is a page of the corpus and no page links to
\* itself.  A page may have no links (a sink page).
LinkCount(c) == Sum([p \in Pages |-> Cardinality(c[p])])

Corpora ==
  {c \in [Pages -> SUBSET Pages] :
     /\ \A p \in Pages : p \notin c[p]
     /\ LinkCount(c) <= MaxLinks}

\* ------------------------------------------------------------- fractions
Frac(a, b) == LET g == GCD(Abs(a), Abs(b)) IN <<a \div g, b \div g>>

FAdd(x, y) == Frac(x[1] * y[2] + y[1] * x[2], x[2] * y[2])

FLess(x, y) == x[1] * y[2] < y[1] * x[2]

RECURSIVE FSumTo(_, _)
FSumTo(f, i) == IF i = 0 THEN <<0, 1>> ELSE FAdd(f[i], FSumTo(f, i - 1))

FSum(f) == FSumTo(f, NumPages)

\* ------------------------------------------------------- long arithmetic
Base == 10 ^ 4

Rest(a) == IF a = <<>> THEN <<>> ELSE Tail(a)

Low(a) == IF a = <<>> THEN 0 ELSE Head(a)

RECURSIVE Strip(_)
Strip(a) ==
  IF a = <<>> THEN <<>>
  ELSE IF a[Len(a)] = 0 THEN Strip(SubSeq(a, 1, Len(a) - 1))
  ELSE a

RECURSIVE BigOf(_)
BigOf(n) == IF n = 0 THEN <<>> ELSE <<n % Base>> \o BigOf(n \div Base)

RECURSIVE BigAddC(_, _, _)
BigAddC(a, b, carry) ==
  IF a = <<>> /\ b = <<>> THEN BigOf(carry)
  ELSE LET x == Low(a) + Low(b) + carry
       IN  <<x % Base>> \o BigAddC(Rest(a), Rest(b), x \div Base)

BigAdd(a, b) == BigAddC(a, b, 0)

RECURSIVE BigMulC(_, _, _)
BigMulC(a, m, carry) ==
  IF a = <<>> THEN BigOf(carry)
  ELSE LET x == Head(a) * m + carry
       IN  <<x % Base>> \o BigMulC(Tail(a), m, x \div Base)

BigMul(a, m) == IF m = 0 THEN <<>> ELSE BigMulC(a, m, 0)

RECURSIVE BigLessAt(_, _, _)
BigLessAt(a, b, i) ==
  IF i = 0 THEN FALSE
  ELSE IF a[i] # b[i] THEN a[i] < b[i]
  ELSE BigLessAt(a, b, i - 1)

BigLess(a, b) ==
  IF Len(a) # Len(b) THEN Len(a) < Len(b) ELSE BigLessAt(a, b, Len(a))

\* a - b for b <= a
RECURSIVE BigSubC(_, _, _)
BigSubC(a, b, borrow) ==
  IF a = <<>> THEN <<>>
  ELSE LET x == Head(a) - Low(b) - borrow
       IN  IF x < 0
           THEN <<x + Base>> \o BigSubC(Tail(a), Rest(b), 1)
           ELSE <<x>> \o BigSubC(Tail(a), Rest(b), 0)

BigAbsDiff(a, b) ==
  IF BigLess(a, b) THEN Strip(BigSubC(b, a, 0)) ELSE Strip(BigSubC(a, b, 0))

RECURSIVE BigSumTo(_, _)
BigSumTo(f, i) == IF i = 0 THEN <<>> ELSE BigAdd(f[i], BigSumTo(f, i - 1))

BigSum(f) == BigSumTo(f, NumPages)

\* ----------------------------------------------------------------- state
VARIABLES
  corpus,          \* the caller's link graph object (main: corpus)
  crawled,         \* the link graph as crawl returned it
  damping_factor,  \* <<numerator, denominator>>
  n,               \* sample count passed to sample_pagerank
  pc,              \* position of the caller and of the running call
  initial_page,    \* transition_model: page; sample_pagerank: initial_page
  trans_model,     \* mapping returned by transition_model
  sample_dict,     \* sample_pagerank: pagerank_dict (visit counts)
  draws,           \* sample_pagerank: iterations of the for loop done
  sample_ranks,    \* mapping returned by sample_pagerank
  pagerank_dict,   \* iterate_pagerank: pagerank_dict
  new_ranks,       \* iterate_pagerank: new_ranks of the last pass
  passes,          \* iterate_pagerank: passes that assigned pagerank_dict
  returned         \* mappings returned by the iterate_pagerank calls so far

vars ==
  <<corpus, crawled, damping_factor, n, pc, initial_page, trans_model,
    sample_dict, draws, sample_ranks, pagerank_dict, new_ranks, passes,
    returned>>

inputs == <<crawled, damping_factor, n>>

sampleVars == <<sample_dict, draws, sample_ranks>>

iterateVars == <<pagerank_dict, new_ranks, passes, returned>>

None == <<>>

\* ------------------------------------------------------ transition_model
\* mutant: the link share lost
prob_per_link_dropped(c, page, d) == <<0, 1>>

\* line 71: damping_factor / len(corpus[page])
prob_per_link(c, page, d) == Frac(d[1], d[2] * Cardinality(c[page]))

\* mutant: the factor 1 - damping_factor forgotten
prob_per_page_undamped(c, d) == Frac(1, Cardinality(DOMAIN c))

\* line 72: (1 - damping_factor) / len(corpus)
prob_per_page(c, d) == Frac(d[2] - d[1], d[2] * Cardinality(DOMAIN c))

\* lines 61-80
transition_model(c, page, d) ==
  IF Cardinality(c[page]) = 0
  THEN [local_page \in DOMAIN c |-> Frac(1, Cardinality(DOMAIN c))]
  ELSE [local_page \in DOMAIN c |->
          IF local_page \in c[page]
          THEN FAdd(prob_per_page(c, d), prob_per_link(c, page, d))
          ELSE prob_per_page(c, d)]

\* a call transition_model(corpus, page, damping_factor)
TransitionModelCall ==
  /\ pc = "main"
  /\ trans_model' = transition_model(corpus, initial_page, damping_factor)
  /\ pc' = "transition_returned"
  /\ UNCHANGED <<corpus, inputs, initial_page, sampleVars, iterateVars>>

\* ------------------------------------------------------- sample_pagerank
\* mutant: the start page is counted as a visit
InitialCountsWithStart(start) ==
  [page \in Pages |-> IF page = start THEN 1 ELSE 0]

\* line 94: every count starts at 0; the start page is not counted.
InitialCounts(start) == [page \in Pages |-> 0]

\* line 103: random.choices draws a page of positive weight.
Drawable(model) == {page \in DOMAIN model : model[page][1] > 0}

\* line 110: pagerank_dict[page] /= n, for n # 0
Ratio(count, k) == IF k < 0 THEN Frac(0 - count, 0 - k) ELSE Frac(count, k)

\* lines 94-97
SampleStart ==
  /\ pc = "main"
  /\ \E start \in Pages :
       /\ initial_page' = start
       /\ sample_dict' = InitialCounts(start)
  /\ draws' = 0
  /\ pc' = "sample_loop"
  /\ UNCHANGED <<corpus, inputs, trans_model, sample_ranks, iterateVars>>

\* lines 101-105: one iteration of for _ in range(n)
SampleDraw ==
  /\ pc = "sample_loop"
  /\ draws < n
  /\ LET model == transition_model(corpus, initial_page, damping_factor)
     IN  \E next_page \in Drawable(model) :
           /\ sample_dict' = [sample_dict EXCEPT ![next_page] = @ + 1]
           /\ initial_page' = next_page
           /\ trans_model' = model
  /\ draws' = draws + 1
  /\ UNCHANGED <<corpus, inputs, pc, sample_ranks, iterateVars>>

\* lines 109-112, once range(n) is exhausted: the division raises
\* ZeroDivisionError for n = 0 and the mapping is returned otherwise.
SampleFinish ==
  /\ pc = "sample_loop"
  /\ ~(draws < n)
  /\ IF n = 0
     THEN /\ pc' = "sample_raised"
          /\ UNCHANGED sample_ranks
     ELSE /\ pc' = "sample_returned"
          /\ sample_ranks' = [page \in Pages |-> Ratio(sample_dict[page], n)]
  /\ UNCHANGED <<corpus, inputs, initial_page, trans_model, sample_dict,
                 draws, iterateVars>>

\* ------------------------------------------------------ iterate_pagerank
\* mutant: sink pages are left without links
NormalizeSinksSkipped(c) == c

\* mutant: the links are replaced by the pages not linked to, whether or not
\* the page is a sink
NormalizeSinksComplement(c) == [p \in Pages |-> Pages \ c[p]]

\* lines 128-130: a page without links gets a link to every page.
NormalizeSinks(c) == [p \in Pages |-> IF c[p] = {} THEN Pages ELSE c[p]]

\* line 125: every rank is 1 / len(corpus).
InitialRanks == [num |-> [p \in Pages |-> BigOf(1)], unit |-> BigOf(1)]

RECURSIVE OutLcmTo(_, _)
OutLcmTo(c, i) ==
  IF i = 0 THEN 1
  ELSE IF c[i] = {} THEN OutLcmTo(c, i - 1)
  ELSE LCM(Cardinality(c[i]), OutLcmTo(c, i - 1))

\* least common multiple of the len(corpus[link]) that line 140 divides by
OutLcm(c) == OutLcmTo(c, NumPages)

\* line 140: the sum over the pages that link to page of rank / out-degree,
\* as a numerator over len(corpus) * unit * OutLcm(c).
RECURSIVE RankSumTo(_, _, _, _)
RankSumTo(c, r, page, i) ==
  IF i = 0 THEN <<>>
  ELSE IF page \in c[i]
  THEN BigAdd(BigMul(r.num[i], OutLcm(c) \div Cardinality(c[i])),
              RankSumTo(c, r, page, i - 1))
  ELSE RankSumTo(c, r, page, i - 1)

rank_sum(c, r, page) == RankSumTo(c, r, page, NumPages)

\* the factor by which one pass multiplies the unit
Step(c, d) == d[2] * OutLcm(c)

\* line 133: (1 - damping_factor) / len(corpus) over the unit of the pass.
chose_page_at_random(c, r, d) == BigMul(r.unit, (d[2] - d[1]) * OutLcm(c))

\* lines 138-141: one pass over all pages.
UpdatedRanks(c, r, d) ==
  [num  |-> [page \in Pages |->
               BigAdd(chose_page_at_random(c, r, d),
                      BigMul(rank_sum(c, r, page), d[1]))],
   unit |-> BigMul(r.unit, Step(c, d))]

\* mutant: the loop waits for new_ranks == pagerank_dict
ConvergedExactly(c, r, nr, d) ==
  \A page \in Pages : nr.num[page] = BigMul(r.num[page], Step(c, d))

\* line 143: abs(new_ranks[page] - pagerank_dict[page]) < 0.001 for all pages.
Converged(c, r, nr, d) ==
  \A page \in Pages :
    BigLess(BigMul(BigAbsDiff(nr.num[page], BigMul(r.num[page], Step(c, d))),
                   TolDen),
            BigMul(nr.unit, NumPages))

\* lines 125-133, entered from main (line 19) or by a second call on the
\* same corpus object.
IterateStart ==
  /\ pc = "main" \/ (pc = "iterate_returned" /\ Len(returned) < 2)
  /\ pagerank_dict' = InitialRanks
  /\ corpus' = NormalizeSinks(corpus)
  /\ new_ranks' = None
  /\ passes' = 0
  /\ pc' = "iterate_loop"
  /\ UNCHANGED <<inputs, initial_page, trans_model, sampleVars, returned>>

\* lines 137-148: one iteration of the while loop; on convergence the loop
\* breaks and line 148 returns pagerank_dict.
IteratePass ==
  /\ pc = "iterate_loop"
  /\ passes < MaxPasses
  /\ LET nr == UpdatedRanks(corpus, pagerank_dict, damping_factor)
     IN  /\ new_ranks' = nr
         /\ IF Converged(corpus, pagerank_dict, nr, damping_factor)
            THEN /\ returned' = Append(returned, pagerank_dict)
                 /\ pc' = "iterate_returned"
                 /\ UNCHANGED <<pagerank_dict, passes>>
            ELSE /\ pagerank_dict' = nr
                 /\ passes' = passes + 1
                 /\ UNCHANGED <<returned, pc>>
  /\ UNCHANGED <<corpus, inputs, initial_page, trans_model, sampleVars>>

InitCommon ==
  /\ crawled \in Corpora
  /\ corpus = crawled
  /\ damping_factor \in Dampings
  /\ pc = "main"
  /\ trans_model = None
  /\ sample_dict = None
  /\ draws = 0
  /\ sample_ranks = None
  /\ pagerank_dict = None
  /\ new_ranks = None
  /\ passes = 0
  /\ returned = <<>>

InitTransition == InitCommon /\ n = 1 /\ initial_page \in Pages

InitSample == InitCommon /\ n \in SampleCounts /\ initial_page = 1

InitIterate == InitCommon /\ n = 1 /\ initial_page = 1

Init == InitTransition \/ InitSample \/ InitIterate

NextTransition == TransitionModelCall

NextSample == SampleStart \/ SampleDraw \/ SampleFinish

NextIterate == IterateStart \/ IteratePass

Next == NextTransition \/ NextSample \/ NextIterate

Spec == Init /\ [][Next]_vars

SpecTransition == InitTransition /\ [][NextTransition]_vars

SpecSample == InitSample /\ [][NextSample]_vars

SpecIterate == InitIterate /\ [][NextIterate]_vars

\* what every step of the while loop does to the position and the pass
\* counter: the loop either breaks or counts one more pass
LoopStep ==
  /\ pc = "iterate_loop"
  /\ passes < MaxPasses
  /\ \/ pc' = "iterate_returned" /\ passes' = passes
     \/ pc' = "iterate_loop" /\ passes' = passes + 1

\* iterate_pagerank is straight-line code around one while loop, run by a
\* single thread: a pass that can run does run.
FairSpecIterate == SpecIterate /\ WF_<<pc, passes>>(LoopStep)

\* ---------------------------------------------------------------- claims
One == <<1, 1>>

IsSink(page) == crawled[page] = {}

SumsToOne(r) == BigSum(r.num) = BigMul(r.unit, NumPages)

\* C1: when iterate_pagerank has returned, every page's outbound set in the
\* caller's graph object is what it was before the call.
C1_CallerGraphUnchanged == pc = "iterate_returned" => corpus = crawled

C3_TransitionIsDistribution ==
  pc = "transition_returned" =>
    /\ DOMAIN trans_model = Pages
    /\ \A page \in Pages : trans_model[page][1] >= 0 /\ trans_model[page][2] > 0
    /\ FSum(trans_model) = One
    /\ IsSink(initial_page) =>
         \A page \in Pages : trans_model[page] = <<1, NumPages>>

C3_Witness ==
  /\ pc = "transition_returned"
  /\ ~IsSink(initial_page)
  /\ damping_factor = DAMPING
  /\ \E page \in Pages : page \notin crawled[initial_page]
  /\ \E page \in Pages : IsSink(page)

LoopingBelowOne ==
  pc = "iterate_loop" /\ damping_factor[1] < damping_factor[2]

IterateReturned == pc = "iterate_returned"

\* C4: with 0 <= damping < 1 the while loop of iterate_pagerank reaches its
\* convergence break: a call that entered the loop returns.
C4_IterateTerminates == LoopingBelowOne ~> IterateReturned

C4_Witness ==
  /\ pc = "iterate_returned"
  /\ damping_factor = DAMPING
  /\ passes >= 10
  /\ \E page \in Pages : IsSink(page)

\* C5: the ranks of iterate_pagerank sum to 1 initially and after every
\* pass, and so does every returned mapping (a rank is a natural numerator
\* over a positive unit, so none is negative).
C5_RanksSumToOne ==
  /\ pc \in {"iterate_loop", "iterate_returned"} => SumsToOne(pagerank_dict)
  /\ new_ranks # None => SumsToOne(new_ranks)
  /\ \A i \in 1..Len(returned) :
       SumsToOne(returned[i]) /\ returned[i].unit # <<>>

C5_Witness ==
  /\ pc = "iterate_returned"
  /\ passes >= 3
  /\ \E page \in Pages : IsSink(page)
  /\ \E page \in Pages : pagerank_dict.num[page] # pagerank_dict.unit

\* C6: sample_pagerank called with n <= 0 returns no mapping.
C6_NonPositiveCountRejected == n <= 0 => pc # "sample_returned"

\* C7: from a non-sink page every link target gets a strictly higher
\* probability than every page that is not a link target, for every damping
\* in [0, 1].
C7_LinkBonusStrict ==
  (pc = "transition_returned" /\ ~IsSink(initial_page)) =>
    \A target \in crawled[initial_page] :
      \A other \in Pages \ crawled[initial_page] :
        FLess(trans_model[other], trans_model[target])

\* C7 as amended: the same for every damping in (0, 1]; at damping 0 the
\* link targets and the other pages get the same probability.
C7_LinkBonusStrictForPositiveDamping ==
  (pc = "transition_returned" /\ ~IsSink(initial_page)) =>
    \A target \in crawled[initial_page] :
      \A other \in Pages \ crawled[initial_page] :
        IF damping_factor[1] > 0
        THEN FLess(trans_model[other], trans_model[target])
        ELSE trans_model[other] = trans_model[target]

C7_Witness ==
  /\ pc = "transition_returned"
  /\ ~IsSink(initial_page)
  /\ damping_factor = DAMPING
  /\ Cardinality(crawled[initial_page]) < NumPages - 1

\* C8: two successive calls of iterate_pagerank on the same graph object
\* with the same damping return identical mappings.
C8_SecondCallAgrees == Len(returned) = 2 => returned[1] = returned[2]

C8_Witness ==
  /\ Len(returned) = 2
  /\ \E page \in Pages : IsSink(page)
  /\ corpus # crawled
  /\ passes >= 3

\* C9: when the convergence check succeeds, iterate_pagerank returns
\* new_ranks, the mapping of the final pass.
C9_ReturnsNewRanks ==
  pc = "iterate_returned" =>
    \A page \in Pages :
      new_ranks.num[page] =
        BigMul(returned[Len(returned)].num[page], Step(corpus, damping_factor))

\* C10: iterate_pagerank called with damping = 1 fails instead of entering
\* the update loop.
C10_DampingOneRejected == damping_factor = One => pc # "iterate_loop"

====
